---- MODULE Spec2Model ----
(***************************************************************************)
(* parquet-tools: the command handlers of src/parquet_tools/cli.py as a    *)
(* state machine over a small file system.  One action is one invocation   *)
(* of a command (head, info, merge, csv2parquet, query): it reads the      *)
(* file system, may write one output file, prints messages and exits.      *)
(*                                                                         *)
(*   fs    the file system: path -> content                                *)
(*   pre   the file system as it was when the last command started         *)
(*   last  the last invocation: its arguments, what it printed, its exit   *)
(*         code and the library calls it made, in order                    *)
(*                                                                         *)
(* A path is the sequence of its components (pathlib's parts), relative   *)
(* to the working directory: Path(".") is << >>, Path("d/a.parquet") is   *)
(* <<"d", "a.parquet">>.                                                   *)
(***************************************************************************)
EXTENDS Integers, Sequences, FiniteSets, TLC

VARIABLES fs, pre, last

vars == <<fs, pre, last>>

(***************************************************************************)
(* Bounds of the model.                                                    *)
(***************************************************************************)
\* head's -n is drawn from 0..MaxN
MaxN == 4
\* a merged table of more rows than this is not merged again (merge's guard)
MaxRows == 6

(***************************************************************************)
(* Strings and paths (pathlib).                                            *)
(***************************************************************************)
Min(a, b) == IF a <= b THEN a ELSE b

\* the characters file names are made of, in code-point order
Alphabet == "._abcdefghijklmnopqrstuvwxyz"

CharCode(c) == CHOOSE i \in 1..Len(Alphabet) : SubSeq(Alphabet, i, i) = c

\* str.__lt__: lexicographic by code point, a proper prefix first
RECURSIVE StrLess(_, _)
StrLess(s, t) ==
    IF Len(t) = 0 THEN FALSE
    ELSE IF Len(s) = 0 THEN TRUE
    ELSE IF SubSeq(s, 1, 1) = SubSeq(t, 1, 1)
         THEN StrLess(SubSeq(s, 2, Len(s)), SubSeq(t, 2, Len(t)))
         ELSE CharCode(SubSeq(s, 1, 1)) < CharCode(SubSeq(t, 1, 1))

\* PurePath.__lt__: the parts compared as lists of strings
RECURSIVE PathLess(_, _)
PathLess(p, q) ==
    IF Len(q) = 0 THEN FALSE
    ELSE IF Len(p) = 0 THEN TRUE
    ELSE IF p[1] = q[1] THEN PathLess(Tail(p), Tail(q))
    ELSE StrLess(p[1], q[1])

EndsWith(s, suf) ==
    Len(s) >= Len(suf) /\ SubSeq(s, Len(s) - Len(suf) + 1, Len(s)) = suf

\* PurePath.name and PurePath.parent: Path(".").name is "" and its parent is itself
PathName(p) == IF Len(p) = 0 THEN "" ELSE p[Len(p)]

PathParent(p) == IF Len(p) = 0 THEN p ELSE SubSeq(p, 1, Len(p) - 1)

\* parent / name
PathJoin(p, n) == Append(p, n)

\* the index of the last "." of a name, 0 when it has none
LastDot(n) ==
    LET dots == {i \in 1..Len(n) : SubSeq(n, i, i) = "."}
    IN  IF dots = {} THEN 0 ELSE CHOOSE i \in dots : \A j \in dots : j <= i

\* PurePath.suffix: from the last dot, unless the name starts or ends with it
PathSuffix(p) ==
    LET n == PathName(p)
        i == LastDot(n)
    IN  IF i > 1 /\ i < Len(n) THEN SubSeq(n, i, Len(n)) ELSE ""

\* PurePath.with_suffix
PathWithSuffix(p, suf) ==
    LET n == PathName(p)
        stem == SubSeq(n, 1, Len(n) - Len(PathSuffix(p)))
    IN  PathJoin(PathParent(p), stem \o suf)

(***************************************************************************)
(* Optional arguments: None is the empty sequence, a given value v is <<v>>.*)
(***************************************************************************)
None == << >>

Some(v) == <<v>>

IsGiven(o) == Len(o) = 1

(***************************************************************************)
(* File contents.                                                          *)
(*   absent    no such file                                                *)
(*   dir       a directory                                                 *)
(*   parquet   schema: the columns, each [name, type];                     *)
(*             groups: the row groups, each [rows, codecs], codecs[i] the  *)
(*             codec of column i in that group; created_by                 *)
(*   csv       header: the column names; rows: the cells, as text          *)
(*   text      a schema declaration or an SQL file: data, its parsed value *)
(*   corrupt   bytes that are no parquet file                              *)
(* A row is the tuple of its cells; a cell is its canonical text.          *)
(***************************************************************************)
Absent == [kind |-> "absent"]

Directory == [kind |-> "dir"]

Corrupt == [kind |-> "corrupt"]

Content(f, p) == IF p \in DOMAIN f THEN f[p] ELSE Absent

\* a check that never misses a file
ExistsAlways(f, p) == TRUE

\* Path.exists()
Exists(f, p) == Content(f, p).kind # "absent"

RECURSIVE ConcatAll(_)
ConcatAll(seqs) ==
    IF Len(seqs) = 0 THEN << >> ELSE Head(seqs) \o ConcatAll(Tail(seqs))

\* FileMetaData of a parquet file
NumRowGroups(c) == Len(c.groups)

NumColumns(c) == Len(c.schema)

NumRows(c) == Len(ConcatAll([i \in 1..Len(c.groups) |-> c.groups[i].rows]))

\* pq.read_table: the whole file as one table, row groups in order
ReadTable(c) ==
    [schema |-> c.schema,
     rows   |-> ConcatAll([i \in 1..Len(c.groups) |-> c.groups[i].rows])]

\* a slice that takes one row too many
TableSliceInclusive(t, offset, length) ==
    [schema |-> t.schema,
     rows   |-> SubSeq(t.rows, offset + 1, Min(offset + length + 1, Len(t.rows)))]

\* Table.slice(offset, length): rows [offset, offset+length), clipped
TableSlice(t, offset, length) ==
    [schema |-> t.schema,
     rows   |-> SubSeq(t.rows, offset + 1, Min(offset + length, Len(t.rows)))]

\* Table.to_pandas(): the frame has the table's column names and rows
ToPandas(t) ==
    [columns |-> [i \in 1..Len(t.schema) |-> t.schema[i].name],
     rows    |-> t.rows]

\* DataFrame.to_csv(path, index=False): a header line and one line per row
ToCsv(df) == [kind |-> "csv", header |-> df.columns, rows |-> df.rows]

\* the codec a written column chunk reports for write_table's compression
\* argument: None and "none" write uncompressed pages, and the writer knows
\* brotli besides the codecs the commands offer
CodecName(codec) ==
    IF ~IsGiven(codec) THEN "UNCOMPRESSED"
    ELSE CASE codec[1] = "snappy" -> "SNAPPY"
           [] codec[1] = "zstd"   -> "ZSTD"
           [] codec[1] = "gzip"   -> "GZIP"
           [] codec[1] = "lz4"    -> "LZ4"
           [] codec[1] = "brotli" -> "BROTLI"
           [] OTHER               -> "UNCOMPRESSED"

CreatedBy == "parquet-cpp-arrow"

\* a writer that starts a row group for every row
WriteTableGroupPerRow(t, codec) ==
    [kind       |-> "parquet",
     schema     |-> t.schema,
     groups     |-> [r \in 1..Len(t.rows) |->
                        [rows   |-> <<t.rows[r]>>,
                         codecs |-> [i \in 1..Len(t.schema) |-> CodecName(codec)]]],
     created_by |-> CreatedBy]

\* pq.write_table(table, path, compression=codec): one row group (the tables
\* here are far below the writer's row group size), every column chunk with
\* the codec asked for
WriteTable(t, codec) ==
    [kind       |-> "parquet",
     schema     |-> t.schema,
     groups     |-> << [rows   |-> t.rows,
                        codecs |-> [i \in 1..Len(t.schema) |-> CodecName(codec)]] >>,
     created_by |-> CreatedBy]

(***************************************************************************)
(* What an invocation leaves behind.                                       *)
(*   exit   0; 1 (typer.Exit(1), or an exception nobody catches);          *)
(*          2 (click's usage errors, BadParameter among them)              *)
(*   out    the messages printed, in order                                 *)
(*   calls  the library calls that read or write data, in order            *)
(*   error  the exception that ended it: its type ("" when none) and what   *)
(*          its message names                                              *)
(***************************************************************************)
Result(cmd, args, exit, out, calls, error) ==
    [cmd |-> cmd, args |-> args, exit |-> exit, out |-> out,
     calls |-> calls, error |-> error]

NoError == [type |-> "", detail |-> << >>]

Raised(type, detail) == [type |-> type, detail |-> detail]

NoCommand == Result("", [file |-> << >>], 0, << >>, << >>, NoError)

Finish(f, r) ==
    /\ fs' = f
    /\ pre' = fs
    /\ last' = r

(***************************************************************************)
(* head                                                                    *)
(***************************************************************************)
head(file, rows, output) ==
    LET args == [file |-> file, rows |-> rows, output |-> output]
    IN
    IF ~Exists(fs, file)
    THEN Finish(fs, Result("head", args, 1, << <<"File not found", file>> >>,
                           << >>, NoError))
    ELSE IF Content(fs, file).kind # "parquet"
    THEN Finish(fs, Result("head", args, 1, << >>,
                           << <<"read_table", file>> >>, Raised("ArrowInvalid", <<file>>)))
    ELSE
    LET table == ReadTable(Content(fs, file))
        df    == ToPandas(TableSlice(table, 0, rows))
    IN  IF IsGiven(output)
        THEN Finish([fs EXCEPT ![output[1]] = ToCsv(df)],
                    Result("head", args, 0, << <<"Saved", output[1]>> >>,
                           << <<"read_table", file>>, <<"to_csv", output[1]>> >>,
                           NoError))
        ELSE Finish(fs, Result("head", args, 0, << <<"frame", df>> >>,
                               << <<"read_table", file>> >>, NoError))

(***************************************************************************)
(* info                                                                    *)
(***************************************************************************)
\* str(path): the parts joined by "/", "." for the empty path
RECURSIVE PathStr(_)
PathStr(p) ==
    IF Len(p) = 0 THEN "."
    ELSE IF Len(p) = 1 THEN p[1]
    ELSE PathStr(SubSeq(p, 1, Len(p) - 1)) \o "/" \o p[Len(p)]

\* the codec read from the last row group instead of the first
_get_compression_info_last_group(c) ==
    IF NumRowGroups(c) = 0 THEN "unknown"
    ELSE LET row_group == c.groups[Len(c.groups)]
         IN  IF Len(row_group.codecs) = 0 THEN "unknown"
             ELSE row_group.codecs[1]

_get_compression_info(c) ==
    IF NumRowGroups(c) = 0 THEN "unknown"
    ELSE LET row_group == c.groups[1]
         IN  IF Len(row_group.codecs) = 0 THEN "unknown"
             ELSE row_group.codecs[1]

\* the fields array: one {name, type} per column, in column order
InfoFields(c) ==
    [i \in 1..Len(c.schema) |->
        [name |-> c.schema[i].name, type |-> c.schema[i].type]]

\* the "file" mapping of the structured output
InfoFile(file, c) ==
    [path        |-> PathStr(file),
     rows        |-> NumRows(c),
     columns     |-> NumColumns(c),
     row_groups  |-> NumRowGroups(c),
     compression |-> _get_compression_info(c),
     created_by  |-> c.created_by]

\* data of the structured output: its top-level keys with their values, in
\* insertion order (both dumps keep it: sort_keys is off)
InfoData(file, c) ==
    << <<"file", InfoFile(file, c)>>, <<"fields", InfoFields(c)>> >>

\* yaml.dump / json.dumps of a mapping: a document of one entry per key
Dump(format, data) == [format |-> format, entries |-> data]

\* yaml.safe_load / json.loads of such a document: the mapping, a later entry
\* of a key replacing an earlier one
Load(doc) ==
    [k \in {doc.entries[i][1] : i \in 1..Len(doc.entries)} |->
        LET last_i == CHOOSE i \in 1..Len(doc.entries) :
                         /\ doc.entries[i][1] = k
                         /\ \A j \in 1..Len(doc.entries) :
                               doc.entries[j][1] = k => j <= i
        IN  doc.entries[last_i][2]]

\* the plain-text report, line by line
InfoText(file, c) ==
    << <<"=== File Info ===">>,
       <<"Path", PathStr(file)>>,
       <<"Rows", NumRows(c)>>,
       <<"Columns", NumColumns(c)>>,
       <<"Row Groups", NumRowGroups(c)>>,
       <<"Compression", _get_compression_info(c)>>,
       <<"Created By", c.created_by>>,
       <<"=== Schema ===">> >>
    \o [i \in 1..Len(c.schema) |->
            <<"field", c.schema[i].name, c.schema[i].type>>]

\* an open that stamps the file it inspects
OpenParquetFileStamps(f, file) ==
    [f EXCEPT ![file] = [@ EXCEPT !.created_by = "parquet-tools"]]

\* the file system after pq.ParquetFile(file): the file is opened for reading
OpenParquetFile(f, file) == f

\* a check of the two flags that lets both through
BothFormatsNever(yaml_output, json_output) == FALSE

\* if yaml_output and json_output
BothFormats(yaml_output, json_output) == yaml_output /\ json_output

info(file, yaml_output, json_output) ==
    LET args == [file |-> file, yaml_output |-> yaml_output,
                 json_output |-> json_output]
    IN
    IF ~Exists(fs, file)
    THEN Finish(fs, Result("info", args, 1, << <<"File not found", file>> >>,
                           << >>, NoError))
    ELSE IF BothFormats(yaml_output, json_output)
    THEN Finish(fs, Result("info", args, 1,
                           << <<"Error: Cannot specify both --yaml and --json.">> >>,
                           << >>, NoError))
    ELSE IF Content(fs, file).kind # "parquet"
    THEN Finish(OpenParquetFile(fs, file),
                Result("info", args, 1, << >>,
                       << <<"ParquetFile", file>> >>, Raised("ArrowInvalid", <<file>>)))
    ELSE
    LET c == Content(fs, file)
    IN  IF yaml_output \/ json_output
        THEN Finish(OpenParquetFile(fs, file),
                    Result("info", args, 0,
                           << <<"document",
                                Dump(IF json_output THEN "json" ELSE "yaml",
                                     InfoData(file, c))>> >>,
                           << <<"ParquetFile", file>> >>, NoError))
        ELSE Finish(OpenParquetFile(fs, file),
                    Result("info", args, 0, InfoText(file, c),
                           << <<"ParquetFile", file>> >>, NoError))

(***************************************************************************)
(* The compression option (class Compression, a click choice).             *)
(***************************************************************************)
Compression == {"none", "snappy", "zstd", "gzip", "lz4"}

DefaultCompression == "snappy"

\* the value of -c/--compression: the one given, Compression.SNAPPY without
CompressionOption(option) ==
    IF IsGiven(option) THEN option[1] ELSE DefaultCompression

\* an option that takes any string
AcceptsAnyCompression(value) == TRUE

\* click converts the option before the command body runs: a value that is no
\* member of the enum ends the invocation as a usage error
AcceptsCompression(value) == value \in Compression

UsageError(cmd, args, param, value) ==
    Result(cmd, args, 2, << <<"Invalid value", param, value>> >>, << >>,
           Raised("BadParameter", <<param, value>>))

\* codec = None if compression == Compression.NONE else compression.value
WriterCodec(compression) ==
    IF compression = "none" THEN None ELSE Some(compression)

(***************************************************************************)
(* merge                                                                   *)
(***************************************************************************)
\* a glob that matches every entry of the directory
GlobEveryEntry(f, input_dir) ==
    IF Content(f, input_dir).kind # "dir" THEN {}
    ELSE {p \in DOMAIN f :
            /\ Len(p) = Len(input_dir) + 1
            /\ PathParent(p) = input_dir
            /\ Exists(f, p)}

\* input_dir.glob("*.parquet"): the entries of the directory whose name ends
\* in .parquet, as a set (the order a directory is listed in is not fixed)
Glob(f, input_dir) ==
    IF Content(f, input_dir).kind # "dir" THEN {}
    ELSE {p \in DOMAIN f :
            /\ Len(p) = Len(input_dir) + 1
            /\ PathParent(p) = input_dir
            /\ Exists(f, p)
            /\ EndsWith(PathName(p), ".parquet")}

\* the paths left in an order of the directory listing's (here: descending)
RECURSIVE Unsorted(_)
Unsorted(paths) ==
    IF paths = {} THEN << >>
    ELSE LET greatest == CHOOSE p \in paths : \A q \in paths : ~PathLess(p, q)
         IN  <<greatest>> \o Unsorted(paths \ {greatest})

\* sorted(paths): ascending
RECURSIVE Sorted(_)
Sorted(paths) ==
    IF paths = {} THEN << >>
    ELSE LET least == CHOOSE p \in paths : \A q \in paths : ~PathLess(q, p)
         IN  <<least>> \o Sorted(paths \ {least})

\* the index of the first file of the list that read_table cannot read, 0 when
\* it reads them all
FirstUnreadable(f, files) ==
    LET bad == {i \in 1..Len(files) : Content(f, files[i]).kind # "parquet"}
    IN  IF bad = {} THEN 0 ELSE CHOOSE i \in bad : \A j \in bad : i <= j

\* a concatenation that accepts any schemas
NoDifferentSchema(tables) == 0

\* pa.concat_tables(tables): every schema must equal the first one; the
\* error names the (0-based) index of the first table whose schema differs
\* and shows the two schemas
FirstDifferentSchema(tables) ==
    LET bad == {i \in 1..Len(tables) : tables[i].schema # tables[1].schema}
    IN  IF bad = {} THEN 0 ELSE CHOOSE i \in bad : \A j \in bad : i <= j

\* "Schema at index <i> was different: <schema 0> vs <schema i>"
SchemaDifference(tables, i) ==
    [message |-> "Schema at index was different",
     index   |-> i - 1,
     schemas |-> <<tables[1].schema, tables[i].schema>>]

ConcatTables(tables) ==
    [schema |-> tables[1].schema,
     rows   |-> ConcatAll([i \in 1..Len(tables) |-> tables[i].rows])]

\* output if output else input_dir.parent / f"{input_dir.name}_merged.parquet"
MergeOutputPath(input_dir, output) ==
    IF IsGiven(output) THEN output[1]
    ELSE PathJoin(PathParent(input_dir), PathName(input_dir) \o "_merged.parquet")

merge(input_dir, output, option) ==
    \E parquet_files \in {Sorted(Glob(fs, input_dir))},
       compression \in {CompressionOption(option)} :
    LET args == [input_dir |-> input_dir, output |-> output,
                 compression |-> option]
        reads(n) == [i \in 1..n |-> <<"read_table", parquet_files[i]>>]
        found == <<"Files found", Len(parquet_files)>>
    IN
    IF ~AcceptsCompression(compression)
    THEN Finish(fs, UsageError("merge", args, "--compression", compression))
    ELSE IF Len(parquet_files) = 0
    THEN Finish(fs, Result("merge", args, 1,
                           << <<"No .parquet files found", input_dir>> >>,
                           << >>, NoError))
    ELSE IF FirstUnreadable(fs, parquet_files) # 0
    THEN LET i == FirstUnreadable(fs, parquet_files)
         IN  Finish(fs, Result("merge", args, 1, <<found>>, reads(i),
                               Raised("ArrowInvalid", <<parquet_files[i]>>)))
    ELSE
    \E tables \in {[i \in 1..Len(parquet_files) |->
                      ReadTable(Content(fs, parquet_files[i]))]} :
    LET all_read == reads(Len(parquet_files)) \o << <<"concat_tables">> >>
    IN  IF FirstDifferentSchema(tables) # 0
        THEN Finish(fs, Result("merge", args, 1, <<found>>, all_read,
                               Raised("ArrowInvalid",
                                      SchemaDifference(
                                          tables, FirstDifferentSchema(tables)))))
        ELSE
        \E merged_table \in {ConcatTables(tables)},
           output_path \in {MergeOutputPath(input_dir, output)} :
        LET codec == WriterCodec(compression)
        IN  /\ Len(merged_table.rows) <= MaxRows
            /\ output_path \in DOMAIN fs
            /\ Finish([fs EXCEPT ![output_path] = WriteTable(merged_table, codec)],
                      Result("merge", args, 0,
                             << found,
                                <<"Merged", Len(merged_table.rows),
                                  Len(merged_table.schema)>>,
                                <<"Saved", output_path, compression>> >>,
                             all_read \o << <<"write_table", output_path, codec>> >>,
                             NoError))

(***************************************************************************)
(* Schema declarations (_TYPE_MAP, _load_schema, _cast_table_with_schema). *)
(* A schema file's content is [kind |-> "text", data |-> d], d the value   *)
(* its text parses to:                                                     *)
(*   [shape |-> "mapping", has_fields, fields]  a mapping, with or without *)
(*        the key "fields"; fields: the declarations, each                 *)
(*        [name |-> optional string, type |-> optional string]             *)
(*   [shape |-> "list"]     a top-level list                               *)
(*   [shape |-> "null"]     an empty document                              *)
(*   [shape |-> "invalid"]  text the parser rejects                        *)
(***************************************************************************)
\* a table of types where date is given the type of timestamp
_TYPE_MAP_date_as_timestamp ==
    [t \in {"string", "int64", "float64", "boolean", "timestamp", "date"} |->
        CASE t = "string"    -> "string"
          [] t = "int64"     -> "int64"
          [] t = "float64"   -> "double"
          [] t = "boolean"   -> "bool"
          [] t = "timestamp" -> "timestamp[us]"
          [] t = "date"      -> "timestamp[us]"]

_TYPE_MAP ==
    [t \in {"string", "int64", "float64", "boolean", "timestamp", "date"} |->
        CASE t = "string"    -> "string"
          [] t = "int64"     -> "int64"
          [] t = "float64"   -> "double"
          [] t = "boolean"   -> "bool"
          [] t = "timestamp" -> "timestamp[us]"
          [] t = "date"      -> "date32[day]"]

Ok(v) == [ok |-> TRUE, value |-> v]

\* a failure that always ends the command with code 1
FailExitOne(exit, type, detail) ==
    [ok |-> FALSE, exit |-> 1, error |-> Raised(type, detail)]

Fail(exit, type, detail) ==
    [ok |-> FALSE, exit |-> exit, error |-> Raised(type, detail)]

\* the index of the first declaration the loop of _load_schema rejects, 0 when
\* it accepts them all
FirstBadField(fields) ==
    LET bad == {i \in 1..Len(fields) :
                  \/ ~IsGiven(fields[i].name)
                  \/ fields[i].name[1] = ""
                  \/ (IF IsGiven(fields[i].type) THEN fields[i].type[1]
                      ELSE "string") \notin DOMAIN _TYPE_MAP}
    IN  IF bad = {} THEN 0 ELSE CHOOSE i \in bad : \A j \in bad : i <= j

\* type_mapping after the loop: a later declaration of a name replaces an
\* earlier one
TypeMapping(fields) ==
    [n \in {fields[i].name[1] : i \in 1..Len(fields)} |->
        LET i == CHOOSE i \in 1..Len(fields) :
                    /\ fields[i].name[1] = n
                    /\ \A j \in 1..Len(fields) : fields[j].name[1] = n => j <= i
        IN  _TYPE_MAP[IF IsGiven(fields[i].type) THEN fields[i].type[1]
                      ELSE "string"]]

\* a loader whose error for an unknown type leaves the column out
_load_schema_token_only(f, schema_path) ==
    LET data   == Content(f, schema_path).data
        suffix == PathSuffix(schema_path)
    IN
    IF suffix \notin {".yaml", ".yml", ".json"}
    THEN Fail(2, "BadParameter", <<"Unsupported schema format", suffix>>)
    ELSE IF data.shape = "invalid"
    THEN Fail(1, IF suffix = ".json" THEN "JSONDecodeError" ELSE "YAMLError",
              <<schema_path>>)
    ELSE IF data.shape = "null"
    THEN Fail(1, "TypeError", <<"argument of type 'NoneType' is not iterable">>)
    ELSE IF data.shape = "list" \/ ~data.has_fields
    THEN Fail(2, "BadParameter", <<"Schema must contain 'fields' key">>)
    ELSE
    LET i == FirstBadField(data.fields)
    IN  IF i = 0 THEN Ok(TypeMapping(data.fields))
        ELSE IF ~IsGiven(data.fields[i].name) \/ data.fields[i].name[1] = ""
        THEN Fail(2, "BadParameter", <<"Each field must have a 'name'">>)
        ELSE Fail(2, "BadParameter", <<"Unknown type", data.fields[i].type[1]>>)

_load_schema(f, schema_path) ==
    LET data   == Content(f, schema_path).data
        suffix == PathSuffix(schema_path)
    IN
    IF suffix \notin {".yaml", ".yml", ".json"}
    THEN Fail(2, "BadParameter", <<"Unsupported schema format", suffix>>)
    ELSE IF data.shape = "invalid"
    THEN Fail(1, IF suffix = ".json" THEN "JSONDecodeError" ELSE "YAMLError",
              <<schema_path>>)
    ELSE IF data.shape = "null"
    THEN Fail(1, "TypeError", <<"argument of type 'NoneType' is not iterable">>)
    ELSE IF data.shape = "list" \/ ~data.has_fields
    THEN Fail(2, "BadParameter", <<"Schema must contain 'fields' key">>)
    ELSE
    LET i == FirstBadField(data.fields)
    IN  IF i = 0 THEN Ok(TypeMapping(data.fields))
        ELSE IF ~IsGiven(data.fields[i].name) \/ data.fields[i].name[1] = ""
        THEN Fail(2, "BadParameter", <<"Each field must have a 'name'">>)
        ELSE Fail(2, "BadParameter",
                  <<"Unknown type", data.fields[i].type[1],
                    data.fields[i].name[1]>>)

\* the texts a CSV cell is drawn from are "1", "x" and "2024-01-15": which
\* of them arrow parses as a value of each type
Parses(cell, type) ==
    CASE type = "string"        -> TRUE
      [] type = "int64"         -> cell = "1"
      [] type = "double"        -> cell = "1"
      [] type = "bool"          -> cell = "1"
      [] type = "timestamp[us]" -> cell = "2024-01-15"
      [] type = "date32[day]"   -> cell = "2024-01-15"
      [] OTHER                  -> FALSE

\* a cast that takes any cell
CastNeverFails(t, target_schema) == FALSE

\* Table.cast(target_schema): every cell of every column must parse as the
\* column's target type
CastFails(t, target_schema) ==
    \E r \in 1..Len(t.rows) : \E i \in 1..Len(target_schema) :
        ~Parses(t.rows[r][i], target_schema[i].type)

\* a reconciliation that puts the declared columns first
_cast_table_declared_first(t, type_mapping) ==
    LET csv_columns    == {t.schema[i].name : i \in 1..Len(t.schema)}
        missing_in_csv == DOMAIN type_mapping \ csv_columns
        declared   == SelectSeq(t.schema, LAMBDA c : c.name \in DOMAIN type_mapping)
        undeclared == SelectSeq(t.schema, LAMBDA c : c.name \notin DOMAIN type_mapping)
        new_fields == [i \in 1..Len(declared) |->
                         [name |-> declared[i].name,
                          type |-> type_mapping[declared[i].name]]]
                      \o undeclared
    IN
    IF missing_in_csv # {}
    THEN Fail(2, "BadParameter",
              <<"Schema defines columns not found in CSV", missing_in_csv>>)
    ELSE Ok([schema |-> new_fields, rows |-> t.rows])

\* a reconciliation that reports only the first of the missing names
_cast_table_first_missing(t, type_mapping) ==
    LET csv_columns    == {t.schema[i].name : i \in 1..Len(t.schema)}
        missing_in_csv == DOMAIN type_mapping \ csv_columns
        new_fields == [i \in 1..Len(t.schema) |->
                         IF t.schema[i].name \in DOMAIN type_mapping
                         THEN [name |-> t.schema[i].name,
                               type |-> type_mapping[t.schema[i].name]]
                         ELSE [name |-> t.schema[i].name, type |-> "string"]]
    IN
    IF missing_in_csv # {}
    THEN Fail(2, "BadParameter",
              <<"Schema defines columns not found in CSV",
                {CHOOSE n \in missing_in_csv :
                    \A m \in missing_in_csv : ~StrLess(m, n)}>>)
    ELSE IF CastFails(t, new_fields)
    THEN Fail(1, "ArrowInvalid", <<"cast">>)
    ELSE Ok([schema |-> new_fields, rows |-> t.rows])

_cast_table_with_schema(t, type_mapping) ==
    LET csv_columns    == {t.schema[i].name : i \in 1..Len(t.schema)}
        schema_columns == DOMAIN type_mapping
        missing_in_csv == schema_columns \ csv_columns
        new_fields == [i \in 1..Len(t.schema) |->
                         IF t.schema[i].name \in DOMAIN type_mapping
                         THEN [name |-> t.schema[i].name,
                               type |-> type_mapping[t.schema[i].name]]
                         ELSE [name |-> t.schema[i].name, type |-> "string"]]
    IN
    IF missing_in_csv # {}
    THEN Fail(2, "BadParameter",
              <<"Schema defines columns not found in CSV", missing_in_csv>>)
    ELSE IF CastFails(t, new_fields)
    THEN Fail(1, "ArrowInvalid", <<"cast">>)
    ELSE Ok([schema |-> new_fields, rows |-> t.rows])

(***************************************************************************)
(* csv2parquet                                                             *)
(***************************************************************************)
\* pa_csv.read_csv followed by the cast of every column to string
ReadCsvAsStrings(c) ==
    [schema |-> [i \in 1..Len(c.header) |->
                    [name |-> c.header[i], type |-> "string"]],
     rows   |-> c.rows]

\* output if output else file.with_suffix(".parquet")
CsvOutputPath(file, output) ==
    IF IsGiven(output) THEN output[1] ELSE PathWithSuffix(file, ".parquet")

csv2parquet(file, output, option, schema) ==
    \E loaded \in {IF IsGiven(schema) /\ Exists(fs, schema[1])
                   THEN _load_schema(fs, schema[1]) ELSE Ok(<< >>)},
       csv_suffix \in {PathSuffix(file)},
       compression \in {CompressionOption(option)} :
    LET args == [file |-> file, output |-> output, compression |-> option,
                 schema |-> schema]
        warning == IF csv_suffix = ".csv" THEN << >>
                   ELSE << <<"Warning: Input file does not have .csv extension",
                             file>> >>
        schema_calls == IF IsGiven(schema)
                        THEN << <<"read_text", schema[1]>> >> ELSE << >>
        schema_out == IF IsGiven(schema) /\ loaded.ok
                      THEN << <<"Schema loaded", Cardinality(DOMAIN loaded.value)>> >>
                      ELSE << >>
        reading == warning \o schema_out \o << <<"Reading", file>> >>
        csv_calls == schema_calls \o << <<"read_csv", file>> >>
    IN
    IF ~AcceptsCompression(compression)
    THEN Finish(fs, UsageError("csv2parquet", args, "--compression", compression))
    ELSE IF ~Exists(fs, file)
    THEN Finish(fs, Result("csv2parquet", args, 1,
                           << <<"File not found", file>> >>, << >>, NoError))
    ELSE IF IsGiven(schema) /\ ~Exists(fs, schema[1])
    THEN Finish(fs, Result("csv2parquet", args, 1,
                           warning \o << <<"Schema file not found", schema[1]>> >>,
                           << >>, NoError))
    ELSE IF ~loaded.ok
    THEN Finish(fs, Result("csv2parquet", args, loaded.exit, warning,
                           schema_calls, loaded.error))
    ELSE IF Content(fs, file).kind # "csv"
    THEN Finish(fs, Result("csv2parquet", args, 1, reading, csv_calls,
                           Raised("ArrowInvalid", <<file>>)))
    ELSE
    \E cast \in {IF IsGiven(schema) /\ DOMAIN loaded.value # {}
                 THEN _cast_table_with_schema(
                          ReadCsvAsStrings(Content(fs, file)), loaded.value)
                 ELSE Ok(ReadCsvAsStrings(Content(fs, file)))} :
        IF ~cast.ok
        THEN Finish(fs, Result("csv2parquet", args, cast.exit, reading,
                               csv_calls, cast.error))
        ELSE
        \E output_path \in {CsvOutputPath(file, output)} :
        LET codec == WriterCodec(compression)
        IN  /\ output_path \in DOMAIN fs
            /\ Finish([fs EXCEPT ![output_path] = WriteTable(cast.value, codec)],
                      Result("csv2parquet", args, 0,
                             reading \o
                             << <<"Rows", Len(cast.value.rows),
                                  Len(cast.value.schema)>>,
                                <<"Saved", output_path, compression>> >>,
                             csv_calls \o
                             << <<"write_table", output_path, codec>> >>,
                             NoError))

(***************************************************************************)
(* query                                                                   *)
(* An SQL text is one of a few statements over the view "data"; an SQL     *)
(* file's content is [kind |-> "text", data |-> [shape |-> "sql", text]].  *)
(***************************************************************************)
SelectAll == "SELECT * FROM data"

SelectOne == "SELECT * FROM data LIMIT 1"

BadSql == "SELEC"

\* str.strip() of the texts an SQL file holds
Strip(text) == IF text = " " THEN "" ELSE text

\* the frame DuckDB returns for a statement it accepts
RunSql(text, t) ==
    IF text = SelectOne THEN ToPandas(TableSlice(t, 0, 1)) ELSE ToPandas(t)

\* a DuckDB that runs any text
SqlNeverFails(text) == FALSE

\* the statements DuckDB rejects
SqlFails(text) == text \notin {SelectAll, SelectOne}

\* a check of the two SQL sources that lets both through
BothSqlSourcesNever(sql, sql_file) == FALSE

\* if sql is not None and sql_file is not None
BothSqlSources(sql, sql_file) == IsGiven(sql) /\ IsGiven(sql_file)

\* if sql is None and sql_file is None
NoSqlSource(sql, sql_file) == ~IsGiven(sql) /\ ~IsGiven(sql_file)

\* a finally clause that leaves the connection open
LeaveConnection(calls) == calls

\* finally: con.close(), after the calls made on the connection the try
\* block opened
CloseConnection(calls) == calls \o << <<"close">> >>

\* connects: whether duckdb.connect opens the connection (it raises a
\* duckdb.Error when not); kept with the arguments of the invocation
query(file, sql, sql_file, output, connects) ==
    LET args == [file |-> file, sql |-> sql, sql_file |-> sql_file,
                 output |-> output, connects |-> connects]
        query_sql == IF IsGiven(sql) THEN sql[1]
                     ELSE Strip(Content(fs, sql_file[1]).data.text)
        connect   == <<"duckdb.connect">>
        view      == <<"execute", "CREATE VIEW data">>
        run       == <<"execute", query_sql>>
    IN
    IF ~Exists(fs, file)
    THEN Finish(fs, Result("query", args, 1, << <<"File not found", file>> >>,
                           << >>, NoError))
    ELSE IF BothSqlSources(sql, sql_file)
    THEN Finish(fs, Result("query", args, 1,
                           << <<"Error: Cannot specify both SQL string and --sql-file.">> >>,
                           << >>, NoError))
    ELSE IF NoSqlSource(sql, sql_file)
    THEN Finish(fs, Result("query", args, 1,
                           << <<"Error: Must provide either SQL string or --sql-file.">> >>,
                           << >>, NoError))
    ELSE IF IsGiven(sql_file) /\ ~Exists(fs, sql_file[1])
    THEN Finish(fs, Result("query", args, 1,
                           << <<"SQL file not found", sql_file[1]>> >>,
                           << >>, NoError))
    ELSE IF IsGiven(sql_file) /\ query_sql = ""
    THEN Finish(fs, Result("query", args, 1,
                           << <<"SQL file is empty", sql_file[1]>> >>,
                           << <<"read_text", sql_file[1]>> >>, NoError))
    ELSE
    LET sql_calls == IF IsGiven(sql_file)
                     THEN << <<"read_text", sql_file[1]>> >> ELSE << >>
    IN
    IF ~connects
    THEN \* duckdb.connect raised: con is unbound when the finally clause closes it
         Finish(fs, Result("query", args, 1, << <<"SQL error", "connect">> >>,
                           sql_calls \o <<connect>>,
                           Raised("UnboundLocalError", <<"con">>)))
    ELSE IF Content(fs, file).kind # "parquet"
    THEN Finish(fs, Result("query", args, 1, << <<"SQL error", "view">> >>,
                           CloseConnection(sql_calls \o <<connect, view>>),
                           NoError))
    ELSE IF SqlFails(query_sql)
    THEN Finish(fs, Result("query", args, 1, << <<"SQL error", "sql">> >>,
                           CloseConnection(sql_calls \o <<connect, view, run>>),
                           NoError))
    ELSE
    LET result == RunSql(query_sql, ReadTable(Content(fs, file)))
        calls  == CloseConnection(sql_calls \o <<connect, view, run>>)
    IN  IF ~IsGiven(output)
        THEN Finish(fs, Result("query", args, 0, << <<"frame", result>> >>,
                               calls \o << <<"to_string">> >>, NoError))
        ELSE IF Content(fs, output[1]).kind = "dir"
        THEN \* to_csv raised OSError: the output path is a directory
             Finish(fs, Result("query", args, 1,
                               << <<"Error writing output file", output[1]>> >>,
                               calls \o << <<"to_csv", output[1]>> >>, NoError))
        ELSE Finish([fs EXCEPT ![output[1]] = ToCsv(result)],
                    Result("query", args, 0, << <<"Saved", output[1]>> >>,
                           calls \o << <<"to_csv", output[1]>> >>, NoError))

(***************************************************************************)
(* The file systems the commands are run in.                               *)
(*   d/            a.parquet, b.parquet, c.parquet (each may be absent)    *)
(*                 and n.csv, which no *.parquet pattern matches           *)
(*   e/            an empty directory                                      *)
(*   x.parquet     the file head, info and query are pointed at            *)
(*   t.csv, s.yaml, s.json, s.txt, q.sql   inputs of csv2parquet and query *)
(*   o.csv, o.parquet, t.parquet, d_merged.parquet, e_merged.parquet,      *)
(*   _merged.parquet               the paths the commands write           *)
(* m.parquet, m.csv, m.yaml and m.sql are never there.                     *)
(***************************************************************************)
Cwd == << >>

DirD == <<"d">>

DirE == <<"e">>

FileA == <<"d", "a.parquet">>

FileB == <<"d", "b.parquet">>

FileC == <<"d", "c.parquet">>

FileN == <<"d", "n.csv">>

FileX == <<"x.parquet">>

FileT == <<"t.csv">>

SchemaYaml == <<"s.yaml">>

SchemaJson == <<"s.json">>

SchemaTxt == <<"s.txt">>

SqlFile == <<"q.sql">>

OutCsv == <<"o.csv">>

OutParquet == <<"o.parquet">>

Paths ==
    {Cwd, DirD, DirE, FileA, FileB, FileC, FileN, FileX, FileT, SchemaYaml,
     SchemaJson, SchemaTxt, SqlFile, OutCsv, OutParquet, <<"t.parquet">>,
     <<"d_merged.parquet">>, <<"e_merged.parquet">>, <<"_merged.parquet">>}

Column(name, type) == [name |-> name, type |-> type]

IdName == <<Column("id", "int64"), Column("name", "string")>>

NameId == <<Column("name", "string"), Column("id", "int64")>>

IdNameText == <<Column("id", "string"), Column("name", "string")>>

Group(rows, codecs) == [rows |-> rows, codecs |-> codecs]

ParquetFile(schema, groups) ==
    [kind |-> "parquet", schema |-> schema, groups |-> groups,
     created_by |-> CreatedBy]

\* the files x.parquet may be
XFiles ==
    { \* no row group at all
      ParquetFile(IdName, << >>),
      \* no column: three rows of nothing
      ParquetFile(<< >>, << Group(<< << >>, << >>, << >> >>, << >>) >>),
      \* one group, no row
      ParquetFile(IdName, << Group(<< >>, <<"SNAPPY", "SNAPPY">>) >>),
      \* one group, its two columns written with different codecs
      ParquetFile(IdName, << Group(<< <<"1", "p">>, <<"2", "q">> >>,
                                   <<"ZSTD", "GZIP">>) >>),
      \* two groups written with different codecs
      ParquetFile(IdName, << Group(<< <<"1", "p">>, <<"2", "q">> >>,
                                   <<"GZIP", "GZIP">>),
                             Group(<< <<"3", "r">> >>,
                                   <<"SNAPPY", "SNAPPY">>) >>),
      \* three groups, five rows
      ParquetFile(IdName, << Group(<< <<"1", "p">>, <<"2", "q">> >>,
                                   <<"UNCOMPRESSED", "UNCOMPRESSED">>),
                             Group(<< <<"3", "r">>, <<"4", "s">> >>,
                                   <<"UNCOMPRESSED", "UNCOMPRESSED">>),
                             Group(<< <<"5", "t">> >>,
                                   <<"LZ4", "LZ4">>) >>) }

OneGroup(schema, rows) ==
    ParquetFile(schema,
                << Group(rows, [i \in 1..Len(schema) |-> "SNAPPY"]) >>)

\* the files d/a.parquet, d/b.parquet and d/c.parquet may be
AFiles ==
    {Absent,
     OneGroup(IdName, << <<"11", "a1">>, <<"12", "a2">> >>),
     OneGroup(NameId, << <<"a1", "11">> >>)}

BFiles ==
    {Absent,
     OneGroup(IdName, << <<"21", "b1">>, <<"22", "b2">> >>),
     OneGroup(IdNameText, << <<"21", "b1">> >>)}

CFiles ==
    {Absent,
     Corrupt,
     OneGroup(IdName, << <<"31", "c1">> >>),
     OneGroup(NameId, << <<"c1", "31">> >>)}

CsvFile == [kind |-> "csv", header |-> <<"id", "name">>,
            rows |-> << <<"1", "x">>, <<"1", "1">> >>]

Decl(name, type) == [name |-> name, type |-> type]

Declares(fields) ==
    [kind |-> "text",
     data |-> [shape |-> "mapping", has_fields |-> TRUE, fields |-> fields]]

SqlText(text) == [kind |-> "text", data |-> [shape |-> "sql", text |-> text]]

\* a file system with every input in place and nothing written yet
BaseFs ==
    [p \in Paths |->
        CASE p \in {Cwd, DirD, DirE} -> Directory
          [] p = FileA -> OneGroup(IdName, << <<"11", "a1">>, <<"12", "a2">> >>)
          [] p = FileB -> OneGroup(IdName, << <<"21", "b1">>, <<"22", "b2">> >>)
          [] p = FileN -> CsvFile
          [] p = FileX -> OneGroup(IdName, << <<"1", "p">>, <<"2", "q">> >>)
          [] p = FileT -> CsvFile
          [] p = SchemaYaml -> Declares(<<Decl(Some("id"), Some("int64"))>>)
          [] p = SchemaJson -> Declares(<<Decl(Some("id"), Some("int64"))>>)
          [] p = SchemaTxt -> Declares(<<Decl(Some("id"), Some("int64"))>>)
          [] p = SqlFile -> SqlText(SelectAll)
          [] OTHER -> Absent]

Start(f) ==
    /\ fs = f
    /\ pre = f
    /\ last = NoCommand

(***************************************************************************)
(* Spec: every command, in the base file system.                           *)
(***************************************************************************)
Init == Start(BaseFs)

InputFiles == {FileX, FileT, <<"m.parquet">>}

SomeCompression == {None, Some("none"), Some("brotli")}

Next ==
    \/ \E file \in InputFiles, rows \in {0, MaxN}, output \in {None, Some(OutCsv)} :
          head(file, rows, output)
    \/ \E file \in InputFiles, yaml_output \in BOOLEAN, json_output \in BOOLEAN :
          info(file, yaml_output, json_output)
    \/ \E input_dir \in {DirD, DirE}, compression \in SomeCompression :
          merge(input_dir, None, compression)
    \/ \E file \in {FileT, <<"m.csv">>}, compression \in SomeCompression,
          schema \in {None, Some(SchemaYaml), Some(SchemaTxt), Some(<<"m.yaml">>)} :
          csv2parquet(file, None, compression, schema)
    \/ \E file \in InputFiles, sql \in {None, Some(SelectAll)},
          sql_file \in {None, Some(SqlFile)}, output \in {None, Some(OutCsv)} :
          query(file, sql, sql_file, output, TRUE)

Spec == Init /\ [][Next]_vars

(***************************************************************************)
(* SpecHead: head, on every shape of x.parquet.                            *)
(***************************************************************************)
InitHead == \E x \in XFiles : Start([BaseFs EXCEPT ![FileX] = x])

NextHead ==
    \E file \in InputFiles, rows \in 0..MaxN, output \in {None, Some(OutCsv)} :
        head(file, rows, output)

SpecHead == InitHead /\ [][NextHead]_vars

(***************************************************************************)
(* SpecInfo: info, on every shape of x.parquet, which csv2parquet may      *)
(* overwrite in between.                                                   *)
(***************************************************************************)
InitInfo == \E x \in XFiles : Start([BaseFs EXCEPT ![FileX] = x])

NextInfo ==
    \/ \E file \in InputFiles, yaml_output \in BOOLEAN, json_output \in BOOLEAN :
          info(file, yaml_output, json_output)
    \/ \E compression \in {Some("gzip"), Some("zstd"), Some("none")} :
          csv2parquet(FileT, Some(FileX), compression, None)

SpecInfo == InitInfo /\ [][NextInfo]_vars

(***************************************************************************)
(* SpecMerge: merge, on every combination of files in d/.                  *)
(***************************************************************************)
InitMerge ==
    \E a \in AFiles, b \in BFiles, c \in CFiles :
        Start([BaseFs EXCEPT ![FileA] = a, ![FileB] = b, ![FileC] = c])

NextMerge ==
    \E input_dir \in {DirD, DirE, FileX, <<"m.parquet">>},
       output \in {None, Some(FileC)}, compression \in {None, Some("none")} :
        merge(input_dir, output, compression)

SpecMerge == InitMerge /\ [][NextMerge]_vars

(***************************************************************************)
(* SpecWrite: the two commands that write parquet, with every value of the *)
(* compression option.                                                     *)
(***************************************************************************)
CompressionArgs ==
    {None} \cup {Some(c) : c \in Compression \cup {"brotli", "SNAPPY"}}

NextWrite ==
    \/ \E output \in {None, Some(OutParquet)}, compression \in CompressionArgs :
          merge(DirD, output, compression)
    \/ \E compression \in CompressionArgs :
          csv2parquet(FileT, None, compression, None)

SpecWrite == Init /\ [][NextWrite]_vars

(***************************************************************************)
(* SpecRoundTrip: csv2parquet and merge write with every codec, and info   *)
(* inspects what they wrote.                                               *)
(***************************************************************************)
\* the files t.csv may be: one cell; two columns, two rows; three columns,
\* five rows
CsvFiles ==
    { [kind |-> "csv", header |-> <<"id">>, rows |-> << <<"1">> >>],
      CsvFile,
      [kind |-> "csv", header |-> <<"id", "name", "value">>,
       rows |-> << <<"1", "x", "1">>, <<"1", "x", "1">>, <<"1", "1", "x">>,
                   <<"1", "x", "x">>, <<"1", "1", "1">> >>] }

WrittenFiles == {<<"t.parquet">>, <<"d_merged.parquet">>}

ValidCompressionArgs == {None} \cup {Some(c) : c \in Compression}

InitRoundTrip ==
    \E t \in CsvFiles : Start([BaseFs EXCEPT ![FileT] = t])

NextRoundTrip ==
    \/ \E compression \in ValidCompressionArgs, schema \in {None, Some(SchemaYaml)} :
          csv2parquet(FileT, None, compression, schema)
    \/ \E compression \in {None, Some("none"), Some("gzip")} :
          merge(DirD, None, compression)
    \/ \E file \in WrittenFiles, yaml_output \in BOOLEAN, json_output \in BOOLEAN :
          info(file, yaml_output, json_output)

SpecRoundTrip == InitRoundTrip /\ [][NextRoundTrip]_vars

(***************************************************************************)
(* SpecCsv: csv2parquet, on every shape of t.csv and of the schema file    *)
(* (s.yaml and s.json hold the same declarations).                         *)
(***************************************************************************)
\* a CSV file with a column for each kind of cell
TypedCsvFile ==
    [kind |-> "csv", header |-> <<"id", "flag", "when", "day">>,
     rows |-> << <<"1", "1", "2024-01-15", "2024-01-15">> >>]

NoFields == [shape |-> "mapping", has_fields |-> FALSE, fields |-> << >>]

\* what the schema file may parse to
SchemaData ==
    { \* declarations that load
      Declares(<<Decl(Some("id"), Some("int64"))>>).data,
      Declares(<<Decl(Some("name"), None)>>).data,
      Declares(<<Decl(Some("name"), Some("string")),
                 Decl(Some("id"), Some("int64"))>>).data,
      Declares(<<Decl(Some("id"), Some("int64")),
                 Decl(Some("id"), Some("string"))>>).data,
      Declares(<<Decl(Some("day"), Some("date")),
                 Decl(Some("when"), Some("timestamp")),
                 Decl(Some("flag"), Some("boolean")),
                 Decl(Some("id"), Some("float64"))>>).data,
      Declares(<< >>).data,
      \* a column declared int64 that holds the cell "x"
      Declares(<<Decl(Some("name"), Some("int64"))>>).data,
      \* two columns no CSV file has
      Declares(<<Decl(Some("id"), Some("int64")),
                 Decl(Some("zip"), Some("string")),
                 Decl(Some("age"), Some("int64"))>>).data,
      \* type tokens _TYPE_MAP does not know, after a declaration that is fine
      Declares(<<Decl(Some("id"), Some("int64")),
                 Decl(Some("name"), Some("integer")),
                 Decl(Some("value"), Some("str"))>>).data,
      \* declarations without a name
      Declares(<<Decl(None, Some("int64"))>>).data,
      Declares(<<Decl(None, Some("int64")),
                 Decl(Some("id"), Some("integer"))>>).data,
      \* documents without the key "fields"
      NoFields,
      [shape |-> "list"],
      [shape |-> "null"],
      \* text that is neither YAML nor JSON
      [shape |-> "invalid"] }

InitCsv ==
    \E t \in CsvFiles \cup {TypedCsvFile}, data \in SchemaData :
        Start([BaseFs EXCEPT ![FileT] = t,
                             ![SchemaYaml] = [kind |-> "text", data |-> data],
                             ![SchemaJson] = [kind |-> "text", data |-> data]])

NextCsv ==
    \E file \in {FileT, DirE},
       schema \in {None, Some(SchemaYaml), Some(SchemaJson), Some(SchemaTxt),
                   Some(<<"m.yaml">>)} :
        csv2parquet(file, None, None, schema)

SpecCsv == InitCsv /\ [][NextCsv]_vars

(***************************************************************************)
(* SpecQuery: query, with every combination of SQL sources, on a file that *)
(* is or is not a parquet file, with statements DuckDB runs or rejects and *)
(* a connection that opens or does not.                                    *)
(***************************************************************************)
InitQuery ==
    \E x \in {BaseFs[FileX], Corrupt},
       q \in {SqlText(SelectAll), SqlText(BadSql), SqlText(" ")} :
        Start([BaseFs EXCEPT ![FileX] = x, ![SqlFile] = q])

NextQuery ==
    \E file \in {FileX, <<"m.parquet">>},
       sql \in {None, Some(SelectOne), Some(BadSql)},
       sql_file \in {None, Some(SqlFile), Some(<<"m.sql">>)},
       output \in {None, Some(OutCsv), Some(DirE)},
       connects \in BOOLEAN :
        query(file, sql, sql_file, output, connects)

SpecQuery == InitQuery /\ [][NextQuery]_vars

(***************************************************************************)
(* SpecFail: merge and csv2parquet on inputs that make them fail at each   *)
(* of their steps, and on inputs that do not; t.parquet is written by      *)
(* csv2parquet and may be the output of a merge.                           *)
(***************************************************************************)
InitFail == InitMerge \/ InitCsv

NextFail ==
    \/ \E output \in {None, Some(<<"t.parquet">>)} :
          merge(DirD, output, None)
    \/ \E file \in {FileT, DirE},
          schema \in {None, Some(SchemaYaml), Some(SchemaTxt)} :
          csv2parquet(file, None, None, schema)

SpecFail == InitFail /\ [][NextFail]_vars

(***************************************************************************)
(* SpecRepeat: merge run again and again with its default output path, on  *)
(* d/, on the empty e/ and on the current directory ".", with every        *)
(* combination of files in d/.                                             *)
(***************************************************************************)
NextRepeat ==
    \E input_dir \in {Cwd, DirD, DirE},
       compression \in {None, Some("none"), Some("gzip")} :
        merge(input_dir, None, compression)

SpecRepeat == InitMerge /\ [][NextRepeat]_vars

(***************************************************************************)
(* The claims.  What a claim says of an invocation is stated over last     *)
(* (the invocation), pre (the files it found) and fs (the files it left).  *)
(***************************************************************************)
IsAbsent(f, p) == Content(f, p).kind = "absent"

\* the first words of the messages printed
Tags(out) == {out[i][1] : i \in 1..Len(out)}

\* the option was accepted by click (the commands that have none accept)
OptionsAccepted ==
    "compression" \in DOMAIN last.args =>
        (IsGiven(last.args.compression) => last.args.compression[1] \in Compression)

\* C1: head, info, csv2parquet and query, given a file that does not exist,
\* print "File not found" and exit with code 1, having read no data, opened no
\* connection and written no file; csv2parquet does the same ("Schema file not
\* found") for a --schema file that does not exist, before it reads the CSV.
C1_MissingFileExitsOne ==
    /\ ( /\ last.cmd \in {"head", "info", "csv2parquet", "query"}
         /\ OptionsAccepted
         /\ IsAbsent(pre, last.args.file) )
       => /\ last.exit = 1
          /\ Tags(last.out) = {"File not found"}
          /\ last.calls = << >>
          /\ fs = pre
    /\ ( /\ last.cmd = "csv2parquet"
         /\ OptionsAccepted
         /\ ~IsAbsent(pre, last.args.file)
         /\ IsGiven(last.args.schema)
         /\ IsAbsent(pre, last.args.schema[1]) )
       => /\ last.exit = 1
          /\ "Schema file not found" \in Tags(last.out)
          /\ last.calls = << >>
          /\ fs = pre

C1_Witness ==
    /\ last.cmd = "query"
    /\ IsGiven(last.args.sql)
    /\ IsAbsent(pre, last.args.file)
    /\ last.exit = 1

\* the rows of a parquet file, group after group
FileRows(c) == ConcatAll([i \in 1..Len(c.groups) |-> c.groups[i].rows])

\* the rows head showed: printed, or saved to the output file
HeadRows ==
    IF IsGiven(last.args.output) THEN fs[last.args.output[1]].rows
    ELSE last.out[1][2].rows

\* C2: for an existing parquet file of R rows and a row count N >= 0, head
\* exits 0 and outputs exactly the first min(N, R) rows, in file order; with
\* N >= R that is every row.
C2_HeadFirstRows ==
    ( /\ last.cmd = "head"
      /\ Content(pre, last.args.file).kind = "parquet" )
    => LET all   == FileRows(pre[last.args.file])
           n     == last.args.rows
           shown == HeadRows
       IN  /\ last.exit = 0
           /\ Len(shown) = (IF n <= Len(all) THEN n ELSE Len(all))
           /\ \A i \in 1..Len(shown) : shown[i] = all[i]
           /\ n >= Len(all) => shown = all

C2_Witness ==
    /\ last.cmd = "head"
    /\ last.exit = 0
    /\ Content(pre, last.args.file).kind = "parquet"
    /\ Len(FileRows(pre[last.args.file])) = 3
    /\ last.args.rows = 2
    /\ IsGiven(last.args.output)
    /\ Len(fs[last.args.output[1]].rows) = 2

\* C3: info with both --yaml and --json, or with a file that does not exist,
\* exits with code 1 and prints neither metadata nor schema in any format.
C3_InfoRejects ==
    ( /\ last.cmd = "info"
      /\ \/ (last.args.yaml_output /\ last.args.json_output)
         \/ IsAbsent(pre, last.args.file) )
    => /\ last.exit = 1
       /\ Tags(last.out) \subseteq
             {"File not found", "Error: Cannot specify both --yaml and --json."}
       /\ Len(last.out) = 1
       /\ last.calls = << >>

C3_Witness ==
    /\ last.cmd = "info"
    /\ last.args.yaml_output /\ last.args.json_output
    /\ Content(pre, last.args.file).kind = "parquet"
    /\ last.exit = 1

\* info ran to its report: the file is there, is a parquet file, and at most
\* one of the two flags is set
InfoReports ==
    /\ last.cmd = "info"
    /\ Content(pre, last.args.file).kind = "parquet"
    /\ ~(last.args.yaml_output /\ last.args.json_output)

\* the mapping a structured report parses to
ParsedReport == Load(last.out[1][2])

\* C4: info --yaml on an existing file exits 0, and its output parses to a
\* mapping with a key "file", whose rows and columns are the file's counts, and
\* a key "schema" that contains every column name of the file.
C4_YamlFileAndSchema ==
    ( InfoReports /\ last.args.yaml_output )
    => /\ last.exit = 0
       /\ "file" \in DOMAIN ParsedReport
       /\ ParsedReport["file"].rows = Len(FileRows(pre[last.args.file]))
       /\ ParsedReport["file"].columns = Len(pre[last.args.file].schema)
       /\ "schema" \in DOMAIN ParsedReport
       /\ \A i \in 1..Len(pre[last.args.file].schema) :
             pre[last.args.file].schema[i].name \in DOMAIN ParsedReport["schema"]

\* the compression value info printed
ReportedCompression ==
    IF last.args.yaml_output \/ last.args.json_output
    THEN ParsedReport["file"].compression
    ELSE LET line == CHOOSE i \in 1..Len(last.out) : last.out[i][1] = "Compression"
         IN  last.out[line][2]

\* C5: the compression info reports is the codec of the first column of the
\* first row group; "unknown", and no error, when the file has no row group or
\* its first row group has no column. No other group or column counts.
C5_CompressionOfFirstChunk ==
    InfoReports
    => LET c == pre[last.args.file]
       IN  /\ last.exit = 0
           /\ last.error = NoError
           /\ ReportedCompression =
                 (IF Len(c.groups) = 0 THEN "unknown"
                  ELSE IF Len(c.schema) = 0 THEN "unknown"
                  ELSE c.groups[1].codecs[1])

C5_Witness ==
    /\ InfoReports
    /\ ~last.args.yaml_output /\ ~last.args.json_output
    /\ Len(pre[last.args.file].groups) = 2
    /\ pre[last.args.file].groups[1].codecs[1] = "GZIP"
    /\ pre[last.args.file].groups[2].codecs[1] = "SNAPPY"
    /\ ReportedCompression = "GZIP"

Matching(f, input_dir) ==
    {p \in DOMAIN f :
        /\ Len(p) = Len(input_dir) + 1
        /\ SubSeq(p, 1, Len(input_dir)) = input_dir
        /\ ~IsAbsent(f, p)
        /\ EndsWith(p[Len(p)], ".parquet")}

\* C7: with no file matching *.parquet in the input directory (an empty
\* directory included), merge prints "No .parquet files found" and exits with
\* code 1, having read no table and created no file.
C7_MergeNothingToMerge ==
    ( /\ last.cmd = "merge"
      /\ OptionsAccepted
      /\ Matching(pre, last.args.input_dir) = {} )
    => /\ last.exit = 1
       /\ Tags(last.out) = {"No .parquet files found"}
       /\ last.calls = << >>
       /\ fs = pre

C7_Witness ==
    /\ last.cmd = "merge"
    /\ last.args.input_dir = DirD
    /\ ~IsAbsent(pre, FileN)
    /\ Matching(pre, DirD) = {}
    /\ last.exit = 1

\* the ways to list a set of paths in ascending order
Ascending(paths) ==
    {s \in [1..Cardinality(paths) -> paths] :
        \A i, j \in 1..Cardinality(paths) : i < j => PathLess(s[i], s[j])}

\* the files merge found are all parquet files
MergeReadsAll ==
    /\ last.cmd = "merge"
    /\ OptionsAccepted
    /\ Matching(pre, last.args.input_dir) # {}
    /\ \A p \in Matching(pre, last.args.input_dir) : pre[p].kind = "parquet"

SameSchemas(f, paths) == \A p, q \in paths : f[p].schema = f[q].schema

\* the path merge saved to
MergeSavedTo == last.out[Len(last.out)][2]

RECURSIVE SumLen(_)
SumLen(seqs) == IF Len(seqs) = 0 THEN 0 ELSE Len(Head(seqs)) + SumLen(Tail(seqs))

\* C8: for input files of one schema, the table merge writes is the inputs'
\* tables one after the other in ascending order of their paths, each with its
\* rows in their order: as many rows as the inputs have together, and the
\* columns of the first file, in its order.
C8_MergeConcatenatesSorted ==
    ( MergeReadsAll /\ SameSchemas(pre, Matching(pre, last.args.input_dir)) )
    => /\ last.exit = 0
       /\ \E s \in Ascending(Matching(pre, last.args.input_dir)) :
             LET written == fs[MergeSavedTo]
                 inputs  == [i \in 1..Len(s) |-> FileRows(pre[s[i]])]
             IN  /\ written.kind = "parquet"
                 /\ FileRows(written) = ConcatAll(inputs)
                 /\ Len(FileRows(written)) = SumLen(inputs)
                 /\ written.schema = pre[s[1]].schema

C8_Witness ==
    /\ MergeReadsAll
    /\ Cardinality(Matching(pre, last.args.input_dir)) = 3
    /\ SameSchemas(pre, Matching(pre, last.args.input_dir))
    /\ last.exit = 0
    /\ Len(FileRows(fs[MergeSavedTo])) = 5

\* C9, as claimed: for files that do not all have one schema, merge fails with
\* an error that names the first table and column that differ, and writes no
\* merged table.
C9_SchemaMismatchNamesColumn ==
    ( MergeReadsAll /\ ~SameSchemas(pre, Matching(pre, last.args.input_dir)) )
    => /\ last.exit # 0
       /\ fs = pre
       /\ "index" \in DOMAIN last.error.detail
       /\ "column" \in DOMAIN last.error.detail

\* C9, amended: for files that do not all have one schema, merge ends with
\* code 1 on the ArrowInvalid of concat_tables, which names the index, in
\* sorted order, of the first table whose schema is not the first table's and
\* shows the two schemas; no table is written.
C9_SchemaMismatchNamesTable ==
    ( MergeReadsAll /\ ~SameSchemas(pre, Matching(pre, last.args.input_dir)) )
    => /\ last.exit = 1
       /\ fs = pre
       /\ \A i \in 1..Len(last.calls) : last.calls[i][1] # "write_table"
       /\ last.error.type = "ArrowInvalid"
       /\ \E s \in Ascending(Matching(pre, last.args.input_dir)) :
             LET i == last.error.detail.index + 1
             IN  /\ i \in 2..Len(s)
                 /\ pre[s[i]].schema # pre[s[1]].schema
                 /\ \A j \in 1..(i - 1) : pre[s[j]].schema = pre[s[1]].schema
                 /\ last.error.detail.schemas = <<pre[s[1]].schema, pre[s[i]].schema>>

C9_Witness ==
    /\ MergeReadsAll
    /\ Cardinality(Matching(pre, last.args.input_dir)) = 3
    /\ pre[FileA].schema = pre[FileB].schema
    /\ pre[FileC].schema # pre[FileA].schema
    /\ last.exit = 1
    /\ last.error.detail.index = 2

\* the codec a parquet file reports for each value of the option
ExpectedCodec(value) ==
    CASE value = "none"   -> "UNCOMPRESSED"
      [] value = "snappy" -> "SNAPPY"
      [] value = "zstd"   -> "ZSTD"
      [] value = "gzip"   -> "GZIP"
      [] value = "lz4"    -> "LZ4"

\* C10: merge and csv2parquet take none, snappy, zstd, gzip and lz4 for the
\* compression option, snappy when it is not given: with each the command
\* succeeds, writes its output with that codec (for none, no compression is
\* passed to the writer) and reports "compression: <value>"; any other value
\* is rejected and no file is written.
C10_CompressionValues ==
    last.cmd \in {"merge", "csv2parquet"}
    => LET value == IF IsGiven(last.args.compression)
                    THEN last.args.compression[1] ELSE "snappy"
           saved == last.out[Len(last.out)]
           wrote == last.calls[Len(last.calls)]
       IN  IF value \in {"none", "snappy", "zstd", "gzip", "lz4"}
           THEN /\ last.exit = 0
                /\ saved[1] = "Saved" /\ saved[3] = value
                /\ wrote[1] = "write_table" /\ wrote[2] = saved[2]
                /\ wrote[3] = (IF value = "none" THEN None ELSE Some(value))
                /\ fs[saved[2]].kind = "parquet"
                /\ \A g \in 1..Len(fs[saved[2]].groups) :
                      \A i \in 1..Len(fs[saved[2]].groups[g].codecs) :
                         fs[saved[2]].groups[g].codecs[i] = ExpectedCodec(value)
           ELSE /\ last.exit # 0
                /\ last.error.type = "BadParameter"
                /\ last.calls = << >>
                /\ fs = pre

C10_Witness ==
    /\ last.cmd = "csv2parquet"
    /\ last.args.compression = Some("none")
    /\ last.exit = 0
    /\ last.calls[Len(last.calls)] = <<"write_table", <<"t.parquet">>, None>>
    /\ fs[<<"t.parquet">>].groups[1].codecs = <<"UNCOMPRESSED", "UNCOMPRESSED">>

\* what an info invocation r reported of the file: read back from the
\* document, or from the lines of the plain report
ReportOf(r) ==
    IF r.args.yaml_output \/ r.args.json_output
    THEN LET file == Load(r.out[1][2])["file"]
         IN  [rows |-> file.rows, columns |-> file.columns,
              row_groups |-> file.row_groups, compression |-> file.compression]
    ELSE LET line(tag) == CHOOSE i \in 1..Len(r.out) : r.out[i][1] = tag
         IN  [rows        |-> r.out[line("Rows")][2],
              columns     |-> r.out[line("Columns")][2],
              row_groups  |-> r.out[line("Row Groups")][2],
              compression |-> r.out[line("Compression")][2]]

\* the table the last command was given to write: its numbers of rows and
\* of columns, counted in the files the command found
GivenRows ==
    IF last.cmd = "csv2parquet" THEN Len(pre[last.args.file].rows)
    ELSE LET found == Sorted(Matching(pre, last.args.input_dir))
         IN  SumLen([i \in 1..Len(found) |-> FileRows(pre[found[i]])])

GivenColumns ==
    IF last.cmd = "csv2parquet" THEN Len(pre[last.args.file].header)
    ELSE LET found == Sorted(Matching(pre, last.args.input_dir))
         IN  Len(pre[found[1]].schema)

\* the last command wrote a table and the next one inspects the file written
WrittenThenInspected ==
    /\ last.cmd \in {"csv2parquet", "merge"}
    /\ last.exit = 0
    /\ last'.cmd = "info"
    /\ last'.args.file = last.out[Len(last.out)][2]
    /\ ~(last'.args.yaml_output /\ last'.args.json_output)

\* C11: a table of r >= 1 rows and k >= 1 columns written by csv2parquet or
\* merge with the compression value c, then inspected with info: info reports
\* r rows, k columns, one row group and the codec of c (SNAPPY when no value
\* was given).
C11_WriteThenInfo ==
    [][ ( /\ WrittenThenInspected
          /\ GivenRows >= 1
          /\ GivenColumns >= 1 )
        => /\ last'.exit = 0
           /\ ReportOf(last').rows = GivenRows
           /\ ReportOf(last').columns = GivenColumns
           /\ ReportOf(last').row_groups = 1
           /\ ReportOf(last').compression =
                 ExpectedCodec(IF IsGiven(last.args.compression)
                               THEN last.args.compression[1] ELSE "snappy") ]_vars

C11_Witness ==
    /\ last.cmd = "info"
    /\ last.args.file = <<"t.parquet">>
    /\ last.args.yaml_output
    /\ last.exit = 0
    /\ Len(pre[FileT].rows) = 5
    /\ ReportOf(last) = [rows |-> 5, columns |-> 3, row_groups |-> 1,
                         compression |-> "GZIP"]

\* csv2parquet converted the file: it ended with code 0
Converted == last.cmd = "csv2parquet" /\ last.exit = 0

\* the file csv2parquet wrote
ConvertedFile == fs[last.out[Len(last.out)][2]]

\* the declarations of the schema file csv2parquet was given, none without
Declarations ==
    IF IsGiven(last.args.schema) THEN pre[last.args.schema[1]].data.fields
    ELSE << >>

\* the declarations of a column, by their places in the schema file
DeclarationsOf(column) ==
    {j \in 1..Len(Declarations) : Declarations[j].name = Some(column)}

\* the arrow type a type token stands for
ArrowType(token) ==
    CASE token = "string"    -> "string"
      [] token = "int64"     -> "int64"
      [] token = "float64"   -> "double"
      [] token = "boolean"   -> "bool"
      [] token = "timestamp" -> "timestamp[us]"
      [] token = "date"      -> "date32[day]"

\* the type a declaration gives: string when it has no "type"
DeclaredType(d) == ArrowType(IF IsGiven(d.type) THEN d.type[1] ELSE "string")

\* C12: in the file csv2parquet writes, a column with a declaration in the
\* schema file has exactly the declared type (that of its last declaration if
\* the name is declared twice; string when the declaration has no type), and a
\* column with no declaration has type string; with no --schema every column
\* has type string.
C12_DeclaredTypes ==
    Converted
    => LET header == pre[last.args.file].header
       IN  /\ Len(ConvertedFile.schema) = Len(header)
           /\ \A i \in 1..Len(header) :
                 LET declared == DeclarationsOf(header[i])
                 IN  ConvertedFile.schema[i].type =
                        (IF declared = {} THEN "string"
                         ELSE DeclaredType(
                                 Declarations[CHOOSE j \in declared :
                                                 \A k \in declared : k <= j]))
           /\ ~IsGiven(last.args.schema)
              => \A i \in 1..Len(header) : ConvertedFile.schema[i].type = "string"

C12_Witness ==
    /\ Converted
    /\ IsGiven(last.args.schema)
    /\ Len(Declarations) = 4
    /\ [i \in 1..4 |-> ConvertedFile.schema[i].type] =
          <<"double", "bool", "timestamp[us]", "date32[day]">>

\* csv2parquet loaded the schema file and read the CSV file: the table and
\* the declarations were there to be reconciled
Reconciles ==
    /\ last.cmd = "csv2parquet"
    /\ "Schema loaded" \in Tags(last.out)
    /\ Content(pre, last.args.file).kind = "csv"

\* the names the schema file declares
DeclaredNames == {Declarations[j].name[1] : j \in 1..Len(Declarations)}

\* the column names of the CSV file
CsvColumns ==
    {pre[last.args.file].header[i] : i \in 1..Len(pre[last.args.file].header)}

\* C13: when the schema declares names that are no columns of the table, the
\* reconciliation fails with an error whose message lists every such name, and
\* no table comes out of it: nothing is written. It succeeds only when the
\* declared names are all columns of the table.
C13_UnknownColumnsAllListed ==
    Reconciles
    => /\ DeclaredNames \ CsvColumns # {}
          => /\ last.exit # 0
             /\ last.error.type = "BadParameter"
             /\ last.error.detail =
                   <<"Schema defines columns not found in CSV",
                     DeclaredNames \ CsvColumns>>
             /\ \A i \in 1..Len(last.calls) : last.calls[i][1] # "write_table"
             /\ fs = pre
       /\ last.exit = 0 => DeclaredNames \subseteq CsvColumns

C13_Witness ==
    /\ Reconciles
    /\ "id" \in DeclaredNames \cap CsvColumns
    /\ DeclaredNames \ CsvColumns = {"zip", "age"}
    /\ last.exit = 2
    /\ last.error.detail[2] = {"zip", "age"}

\* C14: the table csv2parquet writes after reconciling it with a schema has
\* the columns of the CSV file, by name and in the order of its header,
\* whatever the order of the declarations: none added, dropped, doubled or
\* moved, and every row still there.
C14_ColumnOrderKept ==
    ( Converted /\ IsGiven(last.args.schema) )
    => /\ [i \in 1..Len(ConvertedFile.schema) |-> ConvertedFile.schema[i].name]
             = pre[last.args.file].header
       /\ Len(FileRows(ConvertedFile)) = Len(pre[last.args.file].rows)

C14_Witness ==
    /\ Converted
    /\ IsGiven(last.args.schema)
    /\ Len(Declarations) = 2
    /\ Declarations[1].name = Some("name")
    /\ Declarations[2].name = Some("id")
    /\ pre[last.args.file].header = <<"id", "name">>
    /\ ConvertedFile.schema = <<Column("id", "int64"), Column("name", "string")>>

\* csv2parquet reached _load_schema: the CSV file and the schema file exist
LoadsSchema ==
    /\ last.cmd = "csv2parquet"
    /\ ~IsAbsent(pre, last.args.file)
    /\ IsGiven(last.args.schema)
    /\ ~IsAbsent(pre, last.args.schema[1])

\* the schema file is one _load_schema parses: YAML or JSON by its name
ParsedSchema ==
    /\ LoadsSchema
    /\ \E suffix \in {".yaml", ".yml", ".json"} :
          EndsWith(PathName(last.args.schema[1]), suffix)

\* the parsed schema file is a mapping with the key "fields"
HasFields ==
    /\ ParsedSchema
    /\ pre[last.args.schema[1]].data.shape = "mapping"
    /\ pre[last.args.schema[1]].data.has_fields

TypeTokens == {"string", "int64", "float64", "boolean", "timestamp", "date"}

\* the declarations whose type token is not a supported one
UnknownTokens ==
    {j \in 1..Len(Declarations) :
        IsGiven(Declarations[j].type) /\ Declarations[j].type[1] \notin TypeTokens}

WithoutFields ==
    /\ ParsedSchema
    /\ LET data == pre[last.args.schema[1]].data
       IN  \/ data.shape \in {"list", "null"}
           \/ data.shape = "mapping" /\ ~data.has_fields

\* C16: a schema file whose parsed top-level structure has no key "fields",
\* an empty document and a document that is no mapping included, is a fatal
\* input error: csv2parquet reports that the schema must contain 'fields',
\* exits with a code other than 0 and writes no output file.
C16_MissingFieldsReported ==
    WithoutFields
    => /\ last.exit # 0
       /\ last.error.detail = <<"Schema must contain 'fields' key">>
       /\ \A i \in 1..Len(last.calls) : last.calls[i][1] # "write_table"
       /\ fs = pre

\* C17: query, given an existing parquet file and both the SQL argument and
\* --sql-file, or neither of them, prints an error and exits with code 1: it
\* opens no DuckDB connection, executes no SQL and writes no output.
C17_ExactlyOneSqlSource ==
    ( /\ last.cmd = "query"
      /\ Content(pre, last.args.file).kind = "parquet"
      /\ IsGiven(last.args.sql) = IsGiven(last.args.sql_file) )
    => /\ last.exit = 1
       /\ Len(last.out) = 1
       /\ last.out[1][1] \in
             {"Error: Cannot specify both SQL string and --sql-file.",
              "Error: Must provide either SQL string or --sql-file."}
       /\ last.calls = << >>
       /\ fs = pre

C17_Witness ==
    /\ last.cmd = "query"
    /\ Content(pre, last.args.file).kind = "parquet"
    /\ last.args.sql = Some(SelectOne)
    /\ last.args.sql_file = Some(SqlFile)
    /\ pre[SqlFile] = SqlText(SelectAll)
    /\ IsGiven(last.args.output)
    /\ last.args.connects
    /\ last.exit = 1

\* query passed its validation: the file exists, exactly one SQL source is
\* given, and an SQL file exists and holds more than blanks
QueryValidated ==
    /\ last.cmd = "query"
    /\ ~IsAbsent(pre, last.args.file)
    /\ IsGiven(last.args.sql) # IsGiven(last.args.sql_file)
    /\ IsGiven(last.args.sql_file)
       => /\ ~IsAbsent(pre, last.args.sql_file[1])
          /\ pre[last.args.sql_file[1]].data.text # " "

\* the SQL text query was given
QueryText ==
    IF IsGiven(last.args.sql) THEN last.args.sql[1]
    ELSE pre[last.args.sql_file[1]].data.text

\* the step of the execution at which DuckDB raises an error, "" when none
DuckDBErrorAt ==
    IF ~last.args.connects THEN "connect"
    ELSE IF pre[last.args.file].kind # "parquet" THEN "view"
    ELSE IF QueryText = BadSql THEN "sql"
    ELSE ""

\* C18: when DuckDB raises an error at a step of the execution (opening the
\* connection, creating the view "data", executing the SQL), query prints a
\* "SQL error" message and exits with code 1; it prints no result and writes
\* none.
C18_DuckDBErrorExitsOne ==
    ( QueryValidated /\ DuckDBErrorAt # "" )
    => /\ last.exit = 1
       /\ "SQL error" \in Tags(last.out)
       /\ Tags(last.out) \cap {"frame", "Saved"} = {}
       /\ \A i \in 1..Len(last.calls) : last.calls[i][1] # "to_csv"
       /\ fs = pre

C18_Witness ==
    /\ QueryValidated
    /\ DuckDBErrorAt = "connect"
    /\ IsGiven(last.args.sql_file)
    /\ IsGiven(last.args.output)
    /\ last.exit = 1
    /\ Tags(last.out) = {"SQL error"}
    /\ last.error.type = "UnboundLocalError"

\* the error in the schema declaration csv2parquet was given, "" when none:
\*   format   the schema file is neither .yaml, .yml nor .json
\*   fields   the parsed schema has no key "fields"
\*   field    a field has no name, or a type token that is not supported
\*   column   a declared column is not in the CSV file
\* (a schema file that does not parse is no declaration at all)
SchemaError ==
    IF ~LoadsSchema THEN ""
    ELSE IF ~ParsedSchema THEN "format"
    ELSE IF pre[last.args.schema[1]].data.shape = "invalid" THEN ""
    ELSE IF WithoutFields THEN "fields"
    ELSE IF \/ UnknownTokens # {}
            \/ \E j \in 1..Len(Declarations) :
                  ~IsGiven(Declarations[j].name) \/ Declarations[j].name[1] = ""
    THEN "field"
    ELSE IF /\ Content(pre, last.args.file).kind = "csv"
            /\ DeclaredNames \ CsvColumns # {}
    THEN "column"
    ELSE ""

\* the messages of the schema-declaration errors
SchemaMessages ==
    {"Unsupported schema format", "Schema must contain 'fields' key",
     "Each field must have a 'name'", "Unknown type",
     "Schema defines columns not found in CSV"}

\* C19, as claimed: every schema-declaration error of csv2parquet ends the
\* command with a message and exit code 1, the code of the missing-file
\* errors.
C19_SchemaErrorsExitOne ==
    SchemaError # ""
    => /\ last.exit = 1
       /\ last.error.detail[1] \in SchemaMessages

\* C19, amended: every schema-declaration error that csv2parquet reports
\* (unsupported extension, a mapping or list without "fields", a field without
\* a name, an unknown type token, a declared column absent from the CSV) is a
\* typer.BadParameter: a usage error with its message and exit code 2, not
\* the code 1 of the missing-file errors; an empty schema document ends the
\* command with code 1 on an uncaught TypeError.
C19_SchemaErrorsExitTwo ==
    /\ ( /\ SchemaError # ""
         /\ ~(SchemaError = "fields" /\ pre[last.args.schema[1]].data.shape = "null") )
       => /\ last.exit = 2
          /\ last.error.type = "BadParameter"
          /\ last.error.detail[1] \in SchemaMessages
          /\ fs = pre
    /\ ( SchemaError = "fields" /\ pre[last.args.schema[1]].data.shape = "null" )
       => /\ last.exit = 1
          /\ last.error.type = "TypeError"
          /\ fs = pre
    /\ ( /\ last.cmd = "csv2parquet"
         /\ \/ IsAbsent(pre, last.args.file)
            \/ IsGiven(last.args.schema) /\ IsAbsent(pre, last.args.schema[1]) )
       => /\ last.exit = 1
          /\ Tags(last.out) \cap {"File not found", "Schema file not found"} # {}

C19_Witness ==
    /\ SchemaError = "format"
    /\ last.args.schema = Some(SchemaTxt)
    /\ Content(pre, last.args.file).kind = "csv"
    /\ last.exit = 2
    /\ last.error.detail = <<"Unsupported schema format", ".txt">>

\* merge cannot read or concatenate what it found: a file that is no parquet
\* file, or files of different schemas
MergeMustFail ==
    /\ last.cmd = "merge"
    /\ LET found == Matching(pre, last.args.input_dir)
       IN  \/ \E p \in found : pre[p].kind # "parquet"
           \/ ~SameSchemas(pre, {p \in found : pre[p].kind = "parquet"})

\* a column declared int64 (by its last declaration) holds the cell "x"
UncastableCell ==
    LET csv == pre[last.args.file]
    IN  /\ csv.kind = "csv"
        /\ \E i \in 1..Len(csv.header) :
              LET declared == DeclarationsOf(csv.header[i])
              IN  /\ declared # {}
                  /\ Declarations[CHOOSE j \in declared :
                                     \A k \in declared : k <= j].type = Some("int64")
                  /\ \E r \in 1..Len(csv.rows) : csv.rows[r][i] = "x"

\* csv2parquet cannot load the schema, read the CSV or cast a column
ConvertMustFail ==
    /\ last.cmd = "csv2parquet"
    /\ ~IsAbsent(pre, last.args.file)
    /\ \/ SchemaError # ""
       \/ ParsedSchema /\ pre[last.args.schema[1]].data.shape = "invalid"
       \/ pre[last.args.file].kind # "csv"
       \/ HasFields /\ UncastableCell

\* C20: merge failing to read or concatenate its inputs, and csv2parquet
\* failing to load the schema, read the CSV or cast a column, end with a code
\* other than 0 and leave every file as it was: the output path is neither
\* created nor changed and no input is touched. The output is written by the
\* last call of a command that succeeds, after every read.
C20_FailureLeavesFiles ==
    last.cmd \in {"merge", "csv2parquet"}
    => /\ (MergeMustFail \/ ConvertMustFail) => last.exit # 0
       /\ last.exit # 0
          => /\ fs = pre
             /\ \A i \in 1..Len(last.calls) : last.calls[i][1] # "write_table"
       /\ last.exit = 0
          => /\ last.calls[Len(last.calls)][1] = "write_table"
             /\ \A i \in 1..(Len(last.calls) - 1) :
                   last.calls[i][1] # "write_table"
             /\ \A p \in DOMAIN fs :
                   p # last.calls[Len(last.calls)][2] => fs[p] = pre[p]

C20_Witness ==
    /\ last.cmd = "csv2parquet"
    /\ HasFields
    /\ UncastableCell
    /\ last.error = Raised("ArrowInvalid", <<"cast">>)
    /\ pre[<<"t.parquet">>].kind = "parquet"
    /\ fs = pre

\* the places of the calls of a name among the calls of the last invocation
CallsOf(name) == {i \in 1..Len(last.calls) : last.calls[i][1] = name}

\* the last invocation opened a DuckDB connection: it called duckdb.connect
\* and the call did not raise
ConnectionOpened == CallsOf("duckdb.connect") # {} /\ last.args.connects

\* C21: the DuckDB connection of query is scoped to the invocation. At most
\* one is opened, and only after the whole validation has passed (the file
\* exists, exactly one SQL source is given, the SQL file exists and is not
\* empty, and has been read). On every path that opens it, with or without a
\* DuckDB error, it is closed once, after every statement run on it and
\* before a result is printed or written; a command that opened none closes
\* none and runs no statement.
C21_ConnectionScoped ==
    last.cmd = "query"
    => /\ Cardinality(CallsOf("duckdb.connect")) <= 1
       /\ CallsOf("duckdb.connect") # {}
          => /\ QueryValidated
             /\ \A r \in CallsOf("read_text"), c \in CallsOf("duckdb.connect") : r < c
       /\ ConnectionOpened
          => /\ Cardinality(CallsOf("close")) = 1
             /\ \A c \in CallsOf("duckdb.connect"), k \in CallsOf("close") :
                   /\ c < k
                   /\ \A e \in CallsOf("execute") : c < e /\ e < k
                   /\ \A w \in CallsOf("to_csv") \cup CallsOf("to_string") : k < w
       /\ ~ConnectionOpened
          => CallsOf("close") \cup CallsOf("execute") = {}

C21_Witness ==
    /\ last.cmd = "query"
    /\ last.exit = 0
    /\ last.calls = << <<"read_text", SqlFile>>, <<"duckdb.connect">>,
                       <<"execute", "CREATE VIEW data">>,
                       <<"execute", SelectAll>>, <<"close">>,
                       <<"to_csv", OutCsv>> >>

\* the invocation r is a merge that succeeded and was given no -o
MergedByDefault(r) ==
    /\ r.cmd = "merge"
    /\ r.exit = 0
    /\ ~IsGiven(r.args.output)

\* the files the invocation r read
FilesRead(r) ==
    {r.calls[i][2] : i \in {j \in 1..Len(r.calls) : r.calls[j][1] = "read_table"}}

\* C22: with no -o, merge writes to <parent of input_dir>/<name of
\* input_dir>_merged.parquet, a path that is none of the files input_dir's
\* *.parquet pattern matches, for every input_dir; so a merge of the directory
\* that follows one reads the same files and writes an output with the same
\* rows: the output of the one before is not merged into it.
C22_DefaultOutputNotMerged ==
    [][ MergedByDefault(last')
        => LET input_dir == last'.args.input_dir
               saved     == last'.out[Len(last'.out)][2]
           IN  /\ saved = PathJoin(PathParent(input_dir),
                                   PathName(input_dir) \o "_merged.parquet")
               /\ saved \notin Matching(fs', input_dir)
               /\ ( MergedByDefault(last) /\ last.args.input_dir = input_dir )
                  => /\ FilesRead(last') = FilesRead(last)
                     /\ FileRows(fs'[saved]) = FileRows(fs[saved]) ]_vars

====
